---- MODULE Spec2Model ----
(***************************************************************************)
(* Camera controller, camera and frame-loop driver of the renderer.        *)
(*                                                                         *)
(* f32 quantities are modelled as fixed-point integers: the real value v   *)
(* is the integer v * Scale, products and quotients are rounded to the     *)
(* nearest unit.  Mouse deltas, window sizes and indices are plain         *)
(* integers.                                                               *)
(***************************************************************************)
EXTENDS Integers, Sequences, FiniteSets, TLC

VARIABLES
    camera_controller,  \* struct CameraController (camera.rs)
    camera,             \* the camera mutated by update_camera / read by the matrix
    state,              \* fields of struct State (main.rs) other than the two above
    control_flow,       \* winit ControlFlow of the event loop
    projection,         \* a Projection value (camera.rs); main builds none
    ticks,              \* number of update_camera calls made so far
    last,               \* the operation performed last, with its arguments
    prev                \* controller, camera and State before that operation

vars == <<camera_controller, camera, state, control_flow, projection, ticks,
          last, prev>>

(***************************************************************************)
(* Fixed-point arithmetic                                                  *)
(***************************************************************************)
\* f32 values are fixed-point numbers: the integer v stands for v / Scale
\* (Scale is even, so that the 0.5 of OPENGL_TO_WGPU_MATRIX is exact)
Scale == 1000

Abs(x) == IF x < 0 THEN -x ELSE x

\* a / b rounded to the nearest integer, halves away from zero; b > 0
RoundDiv(a, b) ==
    IF a >= 0 THEN (a + b \div 2) \div b
              ELSE -(((-a) + b \div 2) \div b)

FMul(a, b) == RoundDiv(a * b, Scale)

\* fixed-point a / b, b # 0
FDiv(a, b) ==
    IF b > 0 THEN RoundDiv(a * Scale, b) ELSE RoundDiv((-a) * Scale, -b)

\* Newton's iteration (the next iterate is bound to its value first, so
\* that it is computed once)
RECURSIVE SqrtIter(_, _)
SqrtIter(n, x) ==
    CHOOSE r \in { IF y >= x THEN x ELSE SqrtIter(n, y) :
                     y \in {(x + n \div x) \div 2} } : TRUE

\* floor of the square root of n >= 0
ISqrt(n) ==
    CHOOSE r \in { IF v <= 0 THEN 0 ELSE SqrtIter(v, v) : v \in {n} } : TRUE

\* pi and pi/2 in fixed point (355/113 = 3.1415929...)
PI_FIX == RoundDiv(355 * Scale, 113)
FRAC_PI_2 == RoundDiv(355 * Scale, 226)

\* the angle x brought into (-pi, pi] by whole turns
RECURSIVE WrapAngle(_)
WrapAngle(x) ==
    IF x > PI_FIX THEN WrapAngle(x - 2 * PI_FIX)
    ELSE IF x <= -PI_FIX THEN WrapAngle(x + 2 * PI_FIX)
    ELSE x

\* Taylor polynomials on [-pi/2, pi/2]
SinPoly(x) ==
    LET x2 == FMul(x, x)
        t3 == FMul(x, x2) \* x^3
        t5 == FMul(t3, x2)
        t7 == FMul(t5, x2)
        t9 == FMul(t7, x2)
    IN  x - RoundDiv(t3, 6) + RoundDiv(t5, 120) - RoundDiv(t7, 5040)
          + RoundDiv(t9, 362880)

CosPoly(x) ==
    LET x2 == FMul(x, x)
        t4 == FMul(x2, x2)
        t6 == FMul(t4, x2)
        t8 == FMul(t6, x2)
    IN  Scale - RoundDiv(x2, 2) + RoundDiv(t4, 24) - RoundDiv(t6, 720)
          + RoundDiv(t8, 40320)

Clamp1(v) == IF v > Scale THEN Scale ELSE IF v < -Scale THEN -Scale ELSE v

\* f32::sin and f32::cos of a fixed-point angle in radians
Sin(x) ==
    LET w == WrapAngle(x)
    IN  IF w > FRAC_PI_2 THEN Clamp1(SinPoly(PI_FIX - w))
        ELSE IF w < -FRAC_PI_2 THEN Clamp1(SinPoly(-PI_FIX - w))
        ELSE Clamp1(SinPoly(w))

Cos(x) ==
    LET w == WrapAngle(x)
    IN  IF w > FRAC_PI_2 THEN Clamp1(-CosPoly(PI_FIX - w))
        ELSE IF w < -FRAC_PI_2 THEN Clamp1(-CosPoly(-PI_FIX - w))
        ELSE Clamp1(CosPoly(w))

(***************************************************************************)
(* cgmath vectors: triples of fixed-point numbers                          *)
(***************************************************************************)
Vector3(x, y, z) == <<x, y, z>>

VAdd(u, v) == <<u[1] + v[1], u[2] + v[2], u[3] + v[3]>>

\* vector * scalar
VMul(v, s) == <<FMul(v[1], s), FMul(v[2], s), FMul(v[3], s)>>

\* what f32 division by zero yields: x / 0 for x > 0, and 0 / 0
F32_INFINITY == 2147483647
F32_NAN == -2147483647

IsFinite(x) == x # F32_INFINITY /\ x # F32_NAN

\* f32 arithmetic on values that may be NaN (the operands are bound to
\* their values first, so that each is computed once)
NNeg(a) ==
    CHOOSE r \in { IF x = F32_NAN THEN F32_NAN ELSE -x : x \in {a} } : TRUE
NAdd(a, b) ==
    CHOOSE r \in { IF x = F32_NAN \/ y = F32_NAN THEN F32_NAN ELSE x + y :
                     x \in {a}, y \in {b} } : TRUE
NSub(a, b) ==
    CHOOSE r \in { IF x = F32_NAN \/ y = F32_NAN THEN F32_NAN ELSE x - y :
                     x \in {a}, y \in {b} } : TRUE
NMul(a, b) ==
    CHOOSE r \in { IF x = F32_NAN \/ y = F32_NAN THEN F32_NAN
                   ELSE FMul(x, y) : x \in {a}, y \in {b} } : TRUE

\* the largest power of two k, from k on, with n * k * k <= 2^30
RECURSIVE NormScale(_, _)
NormScale(n, k) ==
    IF k < 16384 /\ n <= 1073741824 \div (4 * k * k)
    THEN NormScale(n, 2 * k) ELSE k

\* InnerSpace::normalize: v * (1 / |v|); the square root is taken of the
\* squared magnitude scaled up by k * k, to keep the digits of short
\* vectors; the zero vector gives 0 * (1 / 0), NaN in every component
NormalizeValue(v) ==
    IF v[1] = F32_NAN \/ v[2] = F32_NAN \/ v[3] = F32_NAN
    THEN <<F32_NAN, F32_NAN, F32_NAN>>
    ELSE LET n == v[1] * v[1] + v[2] * v[2] + v[3] * v[3]
         IN  IF n = 0 THEN <<F32_NAN, F32_NAN, F32_NAN>>
             ELSE CHOOSE r \in
                    { <<RoundDiv(v[1] * Scale * k, m),
                        RoundDiv(v[2] * Scale * k, m),
                        RoundDiv(v[3] * Scale * k, m)>> :
                      m \in {ISqrt(n * NormScale(n, 1) * NormScale(n, 1))},
                      k \in {NormScale(n, 1)} } : TRUE

Normalize(v) == CHOOSE r \in { NormalizeValue(x) : x \in {v} } : TRUE

\* `x as f32`: values of up to 24 significant bits are kept, larger ones
\* are rounded to the nearest representable multiple of a power of two
RECURSIVE F32Step(_, _)
F32Step(a, step) ==
    IF a \div step < 16777216 THEN step ELSE F32Step(a, 2 * step)

AsF32(x) ==
    LET step == F32Step(Abs(x), 1)
    IN  RoundDiv(x, step) * step

(***************************************************************************)
(* CameraController (camera.rs)                                            *)
(***************************************************************************)
\* winit VirtualKeyCode values used as inputs; the last two have no arm
MappedKeys == {"W", "Up", "S", "Down", "A", "Left", "D", "Right",
               "Space", "LShift"}
UnmappedKeys == {"Escape", "Q"}
Keys == MappedKeys \cup UnmappedKeys

\* the movement flag a mapped key stands for
FlagOf(key) ==
    CASE key \in {"W", "Up"}    -> "move_forward"
      [] key \in {"S", "Down"}  -> "move_backward"
      [] key \in {"A", "Left"}  -> "move_left"
      [] key \in {"D", "Right"} -> "move_right"
      [] key = "Space"          -> "move_up"
      [] key = "LShift"         -> "move_down"

MoveFlags == {"move_left", "move_right", "move_forward", "move_backward",
              "move_up", "move_down"}

\* CameraController::new; `sensitivity` is the value the constructor is
\* given, rotate_horizontal / rotate_vertical start at rest
NewCameraController(sensitivity) ==
    [ move_left |-> FALSE, move_right |-> FALSE,
      move_forward |-> FALSE, move_backward |-> FALSE,
      move_up |-> FALSE, move_down |-> FALSE,
      move_speed |-> 1 * Scale,
      rotate_left |-> FALSE, rotate_right |-> FALSE,
      rotate_up |-> FALSE, rotate_down |-> FALSE,
      rotate_speed |-> 1 * Scale,
      scroll |-> 0,
      sensitivity |-> sensitivity,
      rotate_horizontal |-> 0, rotate_vertical |-> 0 ]

\* mutant: the catch-all arm falls into the arm above it
process_keydown_Fallthrough(c, key) ==
    CASE key \in {"W", "Up"}    -> [c EXCEPT !.move_forward = TRUE]
      [] key \in {"S", "Down"}  -> [c EXCEPT !.move_backward = TRUE]
      [] key \in {"A", "Left"}  -> [c EXCEPT !.move_left = TRUE]
      [] key \in {"D", "Right"} -> [c EXCEPT !.move_right = TRUE]
      [] key = "Space"          -> [c EXCEPT !.move_up = TRUE]
      [] OTHER                  -> [c EXCEPT !.move_down = TRUE]

process_keydown(c, key) ==
    CASE key \in {"W", "Up"}    -> [c EXCEPT !.move_forward = TRUE]
      [] key \in {"S", "Down"}  -> [c EXCEPT !.move_backward = TRUE]
      [] key \in {"A", "Left"}  -> [c EXCEPT !.move_left = TRUE]
      [] key \in {"D", "Right"} -> [c EXCEPT !.move_right = TRUE]
      [] key = "Space"          -> [c EXCEPT !.move_up = TRUE]
      [] key = "LShift"         -> [c EXCEPT !.move_down = TRUE]
      [] OTHER                  -> c

process_keyup(c, key) ==
    CASE key \in {"W", "Up"}    -> [c EXCEPT !.move_forward = FALSE]
      [] key \in {"S", "Down"}  -> [c EXCEPT !.move_backward = FALSE]
      [] key \in {"A", "Left"}  -> [c EXCEPT !.move_left = FALSE]
      [] key \in {"D", "Right"} -> [c EXCEPT !.move_right = TRUE]
      [] key = "Space"          -> [c EXCEPT !.move_up = TRUE]
      [] key = "LShift"         -> [c EXCEPT !.move_down = TRUE]
      [] OTHER                  -> c

\* mutant: += in place of =
process_mouse_Adding(c, mouse_dx, mouse_dy) ==
    [c EXCEPT !.rotate_horizontal = @ + AsF32(mouse_dx),
              !.rotate_vertical = @ + AsF32(mouse_dy)]

\* mouse_dx, mouse_dy: f64 in fixed point
process_mouse(c, mouse_dx, mouse_dy) ==
    [c EXCEPT !.rotate_horizontal = AsF32(mouse_dx),
              !.rotate_vertical = AsF32(mouse_dy)]

\* delta: [kind |-> "LineDelta", y |-> f32] or [kind |-> "PixelDelta", y |-> f64]
process_scroll(c, delta) ==
    [c EXCEPT !.scroll =
        -(IF delta.kind = "LineDelta" THEN delta.y * 100
                                      ELSE AsF32(delta.y))]

\* SAFE_FRAC_PI_2 = pi/2 - epsilon, epsilon one fixed-point unit
SAFE_FRAC_PI_2 == FRAC_PI_2 - 1

\* a held flag as the amount 1.0, a released one as 0.0
Amount(flag) == IF flag THEN Scale ELSE 0

\* mutant: sine and cosine of the yaw swapped in the forward vector
PlanarMove_Swapped(c, cam, dt) ==
    LET yaw_sin == Sin(cam.yaw)
        yaw_cos == Cos(cam.yaw)
        forward == Normalize(Vector3(yaw_sin, 0, yaw_cos))
        right   == Normalize(Vector3(-yaw_sin, 0, yaw_cos))
        fb == Amount(c.move_forward) - Amount(c.move_backward)
        rl == Amount(c.move_right) - Amount(c.move_left)
    IN  VAdd(VMul(VMul(VMul(forward, fb), c.move_speed), dt),
             VMul(VMul(VMul(right, rl), c.move_speed), dt))

\* position += forward * (move_forward - move_backward) * speed * dt
\*           + right   * (move_right - move_left)       * speed * dt
PlanarMove(c, cam, dt) ==
    LET yaw_sin == Sin(cam.yaw)
        yaw_cos == Cos(cam.yaw)
        forward == Normalize(Vector3(yaw_cos, 0, yaw_sin))
        right   == Normalize(Vector3(-yaw_sin, 0, yaw_cos))
        fb == Amount(c.move_forward) - Amount(c.move_backward)
        rl == Amount(c.move_right) - Amount(c.move_left)
    IN  VAdd(VMul(VMul(VMul(forward, fb), c.move_speed), dt),
             VMul(VMul(VMul(right, rl), c.move_speed), dt))

\* scrollward * scroll * speed * sensitivity * dt
Dolly(c, cam, dt) ==
    LET yaw_sin == Sin(cam.yaw)
        yaw_cos == Cos(cam.yaw)
        pitch_sin == Sin(cam.pitch)
        pitch_cos == Cos(cam.pitch)
        scrollward == Normalize(Vector3(FMul(pitch_cos, yaw_cos), pitch_sin,
                                        FMul(pitch_cos, yaw_sin)))
    IN  VMul(VMul(VMul(VMul(scrollward, c.scroll), c.move_speed),
                  c.sensitivity), dt)

\* (move_up - move_down) * speed * dt, added to position.y
VerticalMove(c, dt) ==
    FMul(FMul(Amount(c.move_up) - Amount(c.move_down), c.move_speed), dt)

\* mutant: the clamp left out
ClampPitch_None(pitch) == pitch

\* mutant: both comparisons the wrong way round
ClampPitch_Flipped(pitch) ==
    IF pitch > -SAFE_FRAC_PI_2 THEN -SAFE_FRAC_PI_2
    ELSE IF pitch < SAFE_FRAC_PI_2 THEN SAFE_FRAC_PI_2
    ELSE pitch

\* keep the camera's angle from going too high/low
ClampPitch(pitch) ==
    IF pitch < -SAFE_FRAC_PI_2 THEN -SAFE_FRAC_PI_2
    ELSE IF pitch > SAFE_FRAC_PI_2 THEN SAFE_FRAC_PI_2
    ELSE pitch

\* mutant: the deltas are not zeroed
ResetRotation_Kept(c) == c

\* the values rotate_horizontal / rotate_vertical are left with by a tick
ResetRotation(c) ==
    [c EXCEPT !.rotate_horizontal = 0, !.rotate_vertical = 0]

\* mutant: scroll is not zeroed
ResetScroll_Kept(c) == c

\* the value scroll is left with by a tick
ResetScroll(c) == [c EXCEPT !.scroll = 0]

\* update_camera(&mut self, camera, dt): the controller and the camera
\* after the call; dt is Duration::as_secs_f32 in fixed point.  The
\* source's `self.speed` is the field move_speed.
update_camera(c, cam, dt) ==
    LET p1 == VAdd(cam.position, PlanarMove(c, cam, dt))
        p2 == VAdd(p1, Dolly(c, cam, dt))
        p3 == [p2 EXCEPT ![2] = p2[2] + VerticalMove(c, dt)]
        yaw == cam.yaw + FMul(FMul(c.rotate_horizontal, c.sensitivity), dt)
        pitch == cam.pitch + FMul(FMul(-c.rotate_vertical, c.sensitivity), dt)
    IN  [ controller |-> ResetRotation(ResetScroll(c)),
          camera |-> [cam EXCEPT !.position = p3, !.yaw = yaw,
                                 !.pitch = ClampPitch(pitch)] ]

(***************************************************************************)
(* cgmath matrices: four columns of four fixed-point numbers               *)
(***************************************************************************)
VSub(u, v) == <<u[1] - v[1], u[2] - v[2], u[3] - v[3]>>

Dot(u, v) ==
    CHOOSE r \in
      { NAdd(NAdd(NMul(a[1], b[1]), NMul(a[2], b[2])), NMul(a[3], b[3])) :
        a \in {u}, b \in {v} } : TRUE

Cross(u, v) ==
    CHOOSE r \in
      { << NSub(NMul(a[2], b[3]), NMul(a[3], b[2])),
           NSub(NMul(a[3], b[1]), NMul(a[1], b[3])),
           NSub(NMul(a[1], b[2]), NMul(a[2], b[1])) >> :
        a \in {u}, b \in {v} } : TRUE

\* Matrix4::new takes its sixteen arguments column by column
Matrix4(c0, c1, c2, c3) == <<c0, c1, c2, c3>>

Identity ==
    Matrix4(<<Scale, 0, 0, 0>>, <<0, Scale, 0, 0>>,
            <<0, 0, Scale, 0>>, <<0, 0, 0, Scale>>)

\* matrix * column vector
MatVecValue(m, v) ==
    LET Row(i) == NAdd(NAdd(NMul(m[1][i], v[1]), NMul(m[2][i], v[2])),
                       NAdd(NMul(m[3][i], v[3]), NMul(m[4][i], v[4])))
    IN  <<Row(1), Row(2), Row(3), Row(4)>>

MatVec(m, v) ==
    CHOOSE r \in { MatVecValue(a, b) : a \in {m}, b \in {v} } : TRUE

\* matrix * matrix
MatMul(a, b) ==
    CHOOSE r \in
      { <<MatVecValue(x, y[1]), MatVecValue(x, y[2]), MatVecValue(x, y[3]),
          MatVecValue(x, y[4])>> : x \in {a}, y \in {b} } : TRUE

\* the columns look_at_rh builds from eye and the basis f, s, u
LookAtRhColumns(eye, f, s, u) ==
    Matrix4(<<s[1], u[1], NNeg(f[1]), 0>>,
            <<s[2], u[2], NNeg(f[2]), 0>>,
            <<s[3], u[3], NNeg(f[3]), 0>>,
            <<NNeg(Dot(eye, s)), NNeg(Dot(eye, u)), Dot(eye, f), Scale>>)

\* Matrix4::look_at_rh(eye, target, up): f is the normalized direction,
\* s the normalized f x up, u is s x f; with eye = target, or with up
\* parallel to target - eye, a zero vector is normalized and the matrix
\* holds NaN
LookAtRhValue(eye, fv, sv, uv) ==
    CHOOSE r \in { LookAtRhColumns(eye, f, s, u) :
                     f \in {fv}, s \in {sv}, u \in {uv} } : TRUE

LookAtRh(eye, target, up) ==
    CHOOSE r \in
      { LookAtRhValue(e, Normalize(VSub(t, e)),
                      Normalize(Cross(Normalize(VSub(t, e)), v)),
                      Cross(Normalize(Cross(Normalize(VSub(t, e)), v)),
                            Normalize(VSub(t, e)))) :
        e \in {eye}, t \in {target}, v \in {up} } : TRUE

\* Deg(x) converted to radians
DegToRad(x) == RoundDiv(x * PI_FIX, 180 * Scale)

\* what a call that panics has in place of a matrix
Panic == <<>>

\* the assert! conditions cgmath::perspective starts with, negated
PerspectivePanics(fovy, aspect, near, far) ==
    \/ fovy <= 0
    \/ fovy >= PI_FIX
    \/ aspect = 0
    \/ near <= 0
    \/ far <= 0
    \/ far = near

\* cgmath::perspective(fovy, aspect, near, far), fovy in radians;
\* cot(fovy / 2) is computed as (1 + cos fovy) / sin fovy, which keeps
\* the digits of small angles
Perspective(fovy, aspect, near, far) ==
    IF PerspectivePanics(fovy, aspect, near, far) THEN Panic
    ELSE LET s == Sin(fovy)
             f == IF s = 0 THEN 0 ELSE FDiv(Scale + Cos(fovy), s)
             x == IF aspect = F32_NAN THEN F32_NAN
                  ELSE IF aspect = F32_INFINITY THEN 0
                  ELSE FDiv(f, aspect)
         IN  Matrix4(<<x, 0, 0, 0>>,
                     <<0, f, 0, 0>>,
                     <<0, 0, FDiv(far + near, near - far), -Scale>>,
                     <<0, 0, FMul(2 * near, FDiv(far, near - far)), 0>>)

(***************************************************************************)
(* Camera, CameraUniform, Projection (camera.rs) and State (main.rs)       *)
(***************************************************************************)
\* mutant: no depth correction
OPENGL_TO_WGPU_MATRIX_Identity == Identity

OPENGL_TO_WGPU_MATRIX ==
    Matrix4(<<Scale, 0, 0, 0>>,
            <<0, Scale, 0, 0>>,
            <<0, 0, Scale \div 2, 0>>,
            <<0, 0, Scale \div 2, Scale>>)

\* width as f32 / height as f32
Aspect(width, height) ==
    IF height = 0
    THEN IF width = 0 THEN F32_NAN ELSE F32_INFINITY
    ELSE FDiv(AsF32(width * Scale), AsF32(height * Scale))

\* Camera::new(&config): the fields update_camera works on (at the origin,
\* looking along +x), the fields of struct Camera (eye one up and two back
\* from the origin it looks at, 45 degrees, near 0.1, far 100), and the
\* aspect of the surface configuration
NewCamera(config) ==
    [ position |-> Vector3(0, 0, 0), yaw |-> 0, pitch |-> 0,
      eye |-> Vector3(0, Scale, 2 * Scale), target |-> Vector3(0, 0, 0),
      up |-> Vector3(0, Scale, 0),
      aspect |-> Aspect(config.width, config.height),
      fovy |-> 45 * Scale, znear |-> Scale \div 10, zfar |-> 100 * Scale ]

\* the `view` and `proj` of Camera::build_view_projection_matrix
View(cam) == LookAtRh(cam.eye, cam.target, cam.up)
Proj(cam) == Perspective(DegToRad(cam.fovy), cam.aspect, cam.znear, cam.zfar)

\* Camera::build_view_projection_matrix
build_view_projection_matrix(cam) ==
    CHOOSE r \in
      { IF Proj(c) = Panic THEN Panic
        ELSE MatMul(MatMul(OPENGL_TO_WGPU_MATRIX, Proj(c)), View(c)) :
        c \in {cam} } : TRUE

\* CameraUniform::new
NewCameraUniform == [view_proj |-> Identity]

\* CameraUniform::update_view_proj(&camera); a panic of the matrix
\* computation unwinds before the assignment
update_view_proj(uniform, cam) ==
    CHOOSE r \in
      { IF m = Panic THEN uniform ELSE [uniform EXCEPT !.view_proj = m] :
        m \in {build_view_projection_matrix(cam)} } : TRUE

\* bytemuck::cast_slice(&[uniform]): the sixteen floats, column after column
CastSlice(uniform) ==
    uniform.view_proj[1] \o uniform.view_proj[2] \o uniform.view_proj[3]
        \o uniform.view_proj[4]

\* queue.write_buffer(&buffer, offset, data), offset counted in floats
write_buffer(buffer, offset, data) ==
    [ i \in 1..Len(buffer) |->
        IF i > offset /\ i <= offset + Len(data) THEN data[i - offset]
        ELSE buffer[i] ]

\* Projection::new(width, height, fovy, znear, zfar)
NewProjection(width, height, fovy, znear, zfar) ==
    [ aspect |-> Aspect(width, height), fovy |-> fovy, znear |-> znear,
      zfar |-> zfar ]

\* mutant: height / width in place of width / height
ProjectionResize_Inverted(p, width, height) ==
    [p EXCEPT !.aspect = Aspect(height, width)]

\* Projection::resize(width, height), applied to the holder of `aspect`
ProjectionResize(p, width, height) ==
    [p EXCEPT !.aspect = Aspect(width, height)]

\* Projection::calc_matrix
calc_matrix(p) ==
    LET m == Perspective(p.fovy, p.aspect, p.znear, p.zfar)
    IN  IF m = Panic THEN Panic ELSE MatMul(OPENGL_TO_WGPU_MATRIX, m)

\* number of bind groups pushed by State::new
NumBindGroups == 2

\* State::new for a window of inner size `size`; `camera_config` is the
\* uniform filled from the new camera and `camera_buffer` the buffer
\* created with its contents; `configures` is the number of
\* surface.configure calls made so far, modulo 2
NewState(size) ==
    LET config == [width |-> size.width, height |-> size.height]
        uniform == update_view_proj(NewCameraUniform, NewCamera(config))
    IN  [ size |-> size,
          config |-> config,
          surface |-> [width |-> size.width, height |-> size.height,
                       configures |-> 1],
          camera_config |-> uniform,
          camera_buffer |-> CastSlice(uniform),
          bind_group_index |-> 0 ]

\* mutant: the modulo left out
NextBindGroupIndex_Unbounded(i) == i + 1

\* State::input on Space: the index of the next bind group
NextBindGroupIndex(i) == (i + 1) % NumBindGroups

\* mutant: the buffer is written before the matrix is recomputed
update_WriteFirst(st, ctl, cam, dt) ==
    CHOOSE res \in
      { [ controller |-> r.controller, camera |-> r.camera,
          state |-> [st EXCEPT
                       !.camera_config = update_view_proj(@, r.camera),
                       !.camera_buffer =
                          write_buffer(@, 0, CastSlice(st.camera_config))],
          panicked |-> build_view_projection_matrix(r.camera) = Panic,
          calls |-> <<"update_camera", "write_buffer", "update_view_proj">> ] :
        r \in {update_camera(ctl, cam, dt)} } : TRUE

\* State::update after update_camera has left `r` behind:
\* update_view_proj, then write_buffer at offset 0; if the matrix
\* computation panics, update ends there
update_uniform(st, r) ==
    CHOOSE res \in
      { [ controller |-> r.controller, camera |-> r.camera,
          state |-> [st EXCEPT
                       !.camera_config = uniform,
                       !.camera_buffer =
                          IF panics THEN @
                          ELSE write_buffer(@, 0, CastSlice(uniform))],
          panicked |-> panics,
          calls |-> IF panics THEN <<"update_camera", "update_view_proj">>
                    ELSE <<"update_camera", "update_view_proj",
                           "write_buffer">> ] :
        uniform \in {update_view_proj(st.camera_config, r.camera)},
        panics \in {build_view_projection_matrix(r.camera) = Panic} } : TRUE

\* State::update, the frame time being `dt`: the controller, the camera
\* and the state it leaves behind, and the calls it made, in their order
update(st, ctl, cam, dt) ==
    CHOOSE res \in
      { update_uniform(st, r) : r \in {update_camera(ctl, cam, dt)} } : TRUE

\* mutant: the test for a zero side left out
resize_Unguarded(st, new_size) ==
    [st EXCEPT !.size = new_size,
               !.config = [width |-> new_size.width,
                           height |-> new_size.height],
               !.surface = [width |-> new_size.width,
                            height |-> new_size.height,
                            configures |-> (@.configures + 1) % 2]]

\* State::resize(new_size)
resize(st, new_size) ==
    IF new_size.width > 0 /\ new_size.height > 0
    THEN [st EXCEPT !.size = new_size,
                    !.config = [width |-> new_size.width,
                                height |-> new_size.height],
                    !.surface = [width |-> new_size.width,
                                 height |-> new_size.height,
                                 configures |-> (@.configures + 1) % 2]]
    ELSE st

(***************************************************************************)
(* Inputs                                                                  *)
(***************************************************************************)
MaxTicks == 2

\* sensitivity given to the controller's constructor (0.4)
Sensitivity == (2 * Scale) \div 5

\* frame times handed to update_camera (seconds)
DtInputs == {Scale \div 2, Scale}

\* mouse motions (dx, dy) in pixels
MouseInputs == {<<0, 0>>, <<10, 5>>, <<-10, -5>>}

\* one line up, fifty pixels down
ScrollInputs == { [kind |-> "LineDelta", y |-> Scale],
                  [kind |-> "PixelDelta", y |-> -50 * Scale] }

PhysicalSize(w, h) == [width |-> w, height |-> h]
InitialSize == PhysicalSize(4, 3)

\* an operation and its arguments (those it does not take left empty)
Op(op, key, dt) ==
    [op |-> op, key |-> key, dt |-> dt, mouse |-> <<0, 0>>,
     element_state |-> "", new_size |-> PhysicalSize(0, 0), result |-> "",
     fovy |-> 0, znear |-> 0, zfar |-> 0, calls |-> <<>>, matrix |-> <<>>]
Snapshot == [camera_controller |-> camera_controller, camera |-> camera,
             state |-> state, projection |-> projection]

\* a quarter of pi: the field of view of 45 degrees, in radians
FRAC_PI_4 == RoundDiv(355 * Scale, 452)

(***************************************************************************)
(* The controller's operations as steps                                    *)
(***************************************************************************)
InitCtl ==
    /\ state = NewState(InitialSize)
    /\ camera = NewCamera(state.config)
    /\ camera_controller = NewCameraController(Sensitivity)
    /\ control_flow = "Poll"
    /\ projection = NewProjection(InitialSize.width, InitialSize.height,
                                  FRAC_PI_4, Scale \div 10, 100 * Scale)
    /\ ticks = 0
    /\ last = Op("new", "", 0)
    /\ prev = Snapshot

KeyDown(key) ==
    /\ camera_controller' = process_keydown(camera_controller, key)
    /\ last' = Op("process_keydown", key, 0)
    /\ prev' = Snapshot
    /\ UNCHANGED projection
    /\ UNCHANGED <<camera, state, control_flow, ticks>>

KeyUp(key) ==
    /\ camera_controller' = process_keyup(camera_controller, key)
    /\ last' = Op("process_keyup", key, 0)
    /\ prev' = Snapshot
    /\ UNCHANGED projection
    /\ UNCHANGED <<camera, state, control_flow, ticks>>

Mouse(d) ==
    /\ camera_controller' =
          process_mouse(camera_controller, d[1] * Scale, d[2] * Scale)
    /\ last' = [Op("process_mouse", "", 0) EXCEPT !.mouse = d]
    /\ prev' = Snapshot
    /\ UNCHANGED projection
    /\ UNCHANGED <<camera, state, control_flow, ticks>>

Scroll(delta) ==
    /\ camera_controller' = process_scroll(camera_controller, delta)
    /\ last' = Op("process_scroll", "", 0)
    /\ prev' = Snapshot
    /\ UNCHANGED projection
    /\ UNCHANGED <<camera, state, control_flow, ticks>>

Tick(dt) ==
    /\ ticks < MaxTicks
    /\ LET r == update_camera(camera_controller, camera, dt)
       IN  /\ camera_controller' = r.controller
           /\ camera' = r.camera
    /\ ticks' = ticks + 1
    /\ last' = Op("update_camera", "", dt)
    /\ prev' = Snapshot
    /\ UNCHANGED projection
    /\ UNCHANGED <<state, control_flow>>

\* the input handlers alone
NextInput ==
    \/ \E key \in Keys : KeyDown(key)
    \/ \E key \in Keys : KeyUp(key)
    \/ \E d \in MouseInputs : Mouse(d)
    \/ \E delta \in ScrollInputs : Scroll(delta)

SpecInput == InitCtl /\ [][NextInput]_vars

\* mouse look and dolly, frame by frame
NextLook ==
    \/ \E d \in MouseInputs : Mouse(d)
    \/ \E delta \in ScrollInputs : Scroll(delta)
    \/ \E dt \in DtInputs : Tick(dt)

SpecLook == InitCtl /\ [][NextLook]_vars

(***************************************************************************)
(* update_camera as a function of its arguments                            *)
(***************************************************************************)
\* move_speed: 1.0 as CameraController::new sets it, and 2.0
SpeedInputs == {1 * Scale, 2 * Scale}
YawInputs == {0, Scale, -2 * Scale}
PitchInputs == {0, SAFE_FRAC_PI_2}
PositionInputs == {Vector3(0, 0, 0), Vector3(Scale, -2 * Scale, 3 * Scale)}
RotationInputs == {<<0, 0>>, <<10, 5>>}
ScrollValues ==
    {0} \cup {process_scroll(NewCameraController(Sensitivity), d).scroll :
                d \in ScrollInputs}

WithFlags(c, fl) ==
    [c EXCEPT !.move_left = fl.move_left, !.move_right = fl.move_right,
              !.move_forward = fl.move_forward,
              !.move_backward = fl.move_backward,
              !.move_up = fl.move_up, !.move_down = fl.move_down]

\* controllers the input handlers can leave behind
ControllerInputs ==
    { [process_mouse(WithFlags(NewCameraController(Sensitivity), fl),
                     r[1] * Scale, r[2] * Scale)
         EXCEPT !.move_speed = sp, !.scroll = sc] :
        fl \in [MoveFlags -> BOOLEAN], sp \in SpeedInputs,
        sc \in ScrollValues, r \in RotationInputs }

\* cameras earlier frames can leave behind
CameraInputs ==
    { [NewCamera(PhysicalSize(InitialSize.width, InitialSize.height))
         EXCEPT !.position = p, !.yaw = y, !.pitch = pt] :
        p \in PositionInputs, y \in YawInputs, pt \in PitchInputs }

InitTick ==
    /\ state = NewState(InitialSize)
    /\ camera \in CameraInputs
    /\ camera_controller \in ControllerInputs
    /\ control_flow = "Poll"
    /\ projection = NewProjection(InitialSize.width, InitialSize.height,
                                  FRAC_PI_4, Scale \div 10, 100 * Scale)
    /\ ticks = 0
    /\ last = Op("new", "", 0)
    /\ prev = Snapshot

NextTick == \E dt \in DtInputs : Tick(dt)

SpecTick == InitTick /\ [][NextTick]_vars

(***************************************************************************)
(* Projection as a value of its own: built, resized, asked for its matrix  *)
(***************************************************************************)
\* surface sizes in pixels; a minimised window has a side of 0
WidthInputs == {0, 800, 1600}
HeightInputs == {0, 600, 900}
FovyInputs == {FRAC_PI_4}
\* near planes: 0.1, and the degenerate 0, 100 (= far) and 200 (> far)
ZnearInputs == {Scale \div 10, 0, 100 * Scale, 200 * Scale}
ZfarInputs == {100 * Scale}

InitProjection ==
    /\ state = NewState(InitialSize)
    /\ camera = NewCamera(state.config)
    /\ camera_controller = NewCameraController(Sensitivity)
    /\ control_flow = "Poll"
    /\ ticks = 0
    /\ \E w \in WidthInputs, h \in HeightInputs, fovy \in FovyInputs,
          znear \in ZnearInputs, zfar \in ZfarInputs :
          /\ projection = NewProjection(w, h, fovy, znear, zfar)
          /\ last = [Op("Projection::new", "", 0)
                       EXCEPT !.new_size = PhysicalSize(w, h),
                              !.fovy = fovy, !.znear = znear, !.zfar = zfar]
    /\ prev = Snapshot

Resize(width, height) ==
    /\ control_flow = "Poll"
    /\ projection' = ProjectionResize(projection, width, height)
    /\ last' = [Op("Projection::resize", "", 0)
                  EXCEPT !.new_size = PhysicalSize(width, height)]
    /\ prev' = Snapshot
    /\ UNCHANGED <<camera_controller, camera, state, control_flow, ticks>>

\* Projection::calc_matrix is called: it returns the matrix, or
\* cgmath::perspective panics and the thread unwinds
CalcMatrix ==
    /\ control_flow = "Poll"
    /\ \E m \in {calc_matrix(projection)} :
          /\ control_flow' = IF m = Panic THEN "Panicked" ELSE control_flow
          /\ last' = [Op("Projection::calc_matrix", "", 0)
                        EXCEPT !.matrix = m,
                               !.result = IF m = Panic THEN "panic"
                                          ELSE "Ok"]
    /\ prev' = Snapshot
    /\ UNCHANGED <<camera_controller, camera, state, projection, ticks>>

NextProjection ==
    \/ \E w \in WidthInputs, h \in HeightInputs : Resize(w, h)
    \/ CalcMatrix

SpecProjection == InitProjection /\ [][NextProjection]_vars

(***************************************************************************)
(* The camera matrix as a function of the camera                           *)
(***************************************************************************)
EyeInputs == {Vector3(0, Scale, 2 * Scale), Vector3(3 * Scale, 2 * Scale, -Scale),
              Vector3(-2 * Scale, Scale \div 2, 0)}
TargetInputs == {Vector3(0, 0, 0), Vector3(0, 0, -3 * Scale)}
FarInputs == {100 * Scale, 10 * Scale}

\* cameras of every eye, target, surface size and far plane
ViewCameraInputs ==
    { [NewCamera(sz) EXCEPT !.eye = eye, !.target = target, !.zfar = zfar] :
        sz \in {PhysicalSize(4, 3), PhysicalSize(3, 4), PhysicalSize(4, 4)},
        eye \in EyeInputs, target \in TargetInputs, zfar \in FarInputs }

\* State::new with `camera` in the place of the camera it builds: the
\* uniform is filled from the camera and the buffer created from it
InitCamera ==
    /\ camera \in ViewCameraInputs
    /\ \E uniform \in {update_view_proj(NewCameraUniform, camera)} :
          state = [NewState(InitialSize)
                     EXCEPT !.camera_config = uniform,
                            !.camera_buffer = CastSlice(uniform)]
    /\ camera_controller \in
          { NewCameraController(Sensitivity),
            [NewCameraController(Sensitivity) EXCEPT !.move_forward = TRUE] }
    /\ control_flow = "Poll"
    /\ projection = NewProjection(InitialSize.width, InitialSize.height,
                                  FRAC_PI_4, Scale \div 10, 100 * Scale)
    /\ ticks = 0
    /\ last = Op("new", "", 0)
    /\ prev = Snapshot

\* State::update, the frame time being `dt`
Update(dt) ==
    /\ control_flow = "Poll"
    /\ ticks < MaxTicks
    /\ \E u \in {update(state, camera_controller, camera, dt)} :
          /\ camera_controller' = u.controller
          /\ camera' = u.camera
          /\ state' = u.state
          /\ control_flow' = IF u.panicked THEN "Panicked" ELSE control_flow
          /\ last' = [Op("update", "", dt) EXCEPT !.calls = u.calls]
    /\ ticks' = ticks + 1
    /\ prev' = Snapshot
    /\ UNCHANGED projection

NextCamera == \E dt \in DtInputs : Update(dt)

SpecCamera == InitCamera /\ [][NextCamera]_vars

(***************************************************************************)
(* The event loop of main (main.rs)                                        *)
(***************************************************************************)
\* virtual key codes the window system delivers; "None" is an event
\* without one
DriverKeys == {"W", "D", "Space", "Escape", "None"}
ElementStates == {"Pressed", "Released"}
SizeInputs == {PhysicalSize(0, 3), PhysicalSize(4, 0), PhysicalSize(4, 3),
               PhysicalSize(3, 4), PhysicalSize(4, 4)}
RenderResults == {"Ok", "Lost", "OutOfMemory", "Outdated", "Timeout"}

Init == InitCtl

\* mutant: Timeout ends the loop too
match_render_ErrorsExit(st, cf, result) ==
    [ state |-> IF result = "Lost" THEN resize(st, st.size) ELSE st,
      control_flow |-> IF result \in {"OutOfMemory", "Timeout"} THEN "Exit"
                       ELSE cf ]

\* the event loop's match on the answer of State::render
match_render(st, cf, result) ==
    [ state |-> IF result = "Lost" THEN resize(st, st.size) ELSE st,
      control_flow |-> IF result = "OutOfMemory" THEN "Exit" ELSE cf ]

\* mutant: Space is handed to the controller as well
input_SpaceForwarded(st, ctl, es, vk) ==
    IF vk = "None"
    THEN [state |-> st, controller |-> ctl, result |-> "panic"]
    ELSE [state |-> IF vk = "Space"
                    THEN [st EXCEPT !.bind_group_index = NextBindGroupIndex(@)]
                    ELSE st,
          controller |-> (IF es = "Pressed" THEN process_keydown(ctl, vk)
                          ELSE process_keyup(ctl, vk)),
          result |-> "true"]

\* State::input on a KeyboardInput event: what it leaves behind and what
\* it answers ("panic" for Option::unwrap on None); every such event is
\* answered true
input(st, ctl, es, vk) ==
    IF vk = "None"
    THEN [state |-> st, controller |-> ctl, result |-> "panic"]
    ELSE IF vk = "Space"
    THEN [state |-> [st EXCEPT !.bind_group_index = NextBindGroupIndex(@)],
          controller |-> ctl, result |-> "true"]
    ELSE [state |-> st,
          controller |-> (IF es = "Pressed" THEN process_keydown(ctl, vk)
                          ELSE process_keyup(ctl, vk)),
          result |-> "true"]

\* a KeyboardInput event for the window: State::input first, the event
\* loop's own match only if that answers false
KeyboardInput(es, vk) ==
    /\ control_flow = "Poll"
    /\ LET r == input(state, camera_controller, es, vk)
       IN  /\ state' = r.state
           /\ camera_controller' = r.controller
           /\ control_flow' =
                 IF r.result = "panic" THEN "Panicked"
                 ELSE IF r.result = "false" /\ es = "Pressed"
                           /\ vk = "Escape" THEN "Exit"
                 ELSE control_flow
           /\ last' = [Op("KeyboardInput", vk, 0)
                         EXCEPT !.element_state = es, !.result = r.result]
    /\ prev' = Snapshot
    /\ UNCHANGED projection
    /\ UNCHANGED <<camera, ticks>>

\* State::input answers true and does nothing
CursorMoved ==
    /\ control_flow = "Poll"
    /\ last' = Op("CursorMoved", "", 0)
    /\ prev' = Snapshot
    /\ UNCHANGED projection
    /\ UNCHANGED <<camera_controller, camera, state, control_flow, ticks>>

Resized(physical_size) ==
    /\ control_flow = "Poll"
    /\ state' = resize(state, physical_size)
    /\ last' = [Op("Resized", "", 0) EXCEPT !.new_size = physical_size]
    /\ prev' = Snapshot
    /\ UNCHANGED projection
    /\ UNCHANGED <<camera_controller, camera, control_flow, ticks>>

ScaleFactorChanged(new_inner_size) ==
    /\ control_flow = "Poll"
    /\ state' = resize(state, new_inner_size)
    /\ last' = [Op("ScaleFactorChanged", "", 0)
                  EXCEPT !.new_size = new_inner_size]
    /\ prev' = Snapshot
    /\ UNCHANGED projection
    /\ UNCHANGED <<camera_controller, camera, control_flow, ticks>>

CloseRequested ==
    /\ control_flow = "Poll"
    /\ control_flow' = "Exit"
    /\ last' = Op("CloseRequested", "", 0)
    /\ prev' = Snapshot
    /\ UNCHANGED projection
    /\ UNCHANGED <<camera_controller, camera, state, ticks>>

\* Event::RedrawRequested: State::update, then State::render answering
\* any of RenderResults; update hands update_camera no frame time, any of DtInputs is
\* taken; `matrix` keeps the contents of camera_buffer at the call of
\* render; a panic in update ends the loop before render
RedrawRequested(dt) ==
    /\ control_flow = "Poll"
    /\ ticks < MaxTicks
    /\ \E u \in {update(state, camera_controller, camera, dt)} :
           /\ camera_controller' = u.controller
           /\ camera' = u.camera
           /\ IF u.panicked
              THEN /\ state' = u.state
                   /\ control_flow' = "Panicked"
                   /\ last' = [Op("RedrawRequested", "", dt)
                                 EXCEPT !.result = "panic",
                                        !.calls = u.calls]
              ELSE \E result \in RenderResults :
                     \E m \in {match_render(u.state, control_flow, result)} :
                       /\ state' = m.state
                       /\ control_flow' = m.control_flow
                       /\ last' = [Op("RedrawRequested", "", dt)
                                     EXCEPT !.result = result,
                                            !.matrix = u.state.camera_buffer,
                                            !.calls =
                                               u.calls \o <<"render">> \o
                                               (IF result = "Lost"
                                                THEN <<"resize">> ELSE <<>>)]
    /\ ticks' = ticks + 1
    /\ prev' = Snapshot
    /\ UNCHANGED projection

\* window.request_redraw()
MainEventsCleared ==
    /\ control_flow = "Poll"
    /\ last' = Op("MainEventsCleared", "", 0)
    /\ prev' = Snapshot
    /\ UNCHANGED projection
    /\ UNCHANGED <<camera_controller, camera, state, control_flow, ticks>>

Next ==
    \/ \E es \in ElementStates, vk \in DriverKeys : KeyboardInput(es, vk)
    \/ CursorMoved
    \/ \E sz \in SizeInputs : Resized(sz)
    \/ \E sz \in SizeInputs : ScaleFactorChanged(sz)
    \/ CloseRequested
    \/ \E dt \in DtInputs : RedrawRequested(dt)
    \/ MainEventsCleared

Spec == Init /\ [][Next]_vars

(***************************************************************************)
(* Properties                                                              *)
(***************************************************************************)
IsKeyOp == last.op \in {"process_keydown", "process_keyup"}
IsTick == last.op = "update_camera"
FlagsOf(c) == [f \in MoveFlags |-> c[f]]
NoFlags(c) == \A f \in MoveFlags : ~c[f]

\* C1: on_key(k, is_down) sets the flag of the recognized key k to is_down
\* and leaves every other field alone; after process_keyup(k) the flag of
\* k is false.
C1_KeySetsFlag ==
    (IsKeyOp /\ last.key \in MappedKeys) =>
        camera_controller =
            [prev.camera_controller EXCEPT
                ![FlagOf(last.key)] = (last.op = "process_keydown")]

\* C2: in every controller state, key-down(k) followed at once by
\* key-up(k) leaves the movement flags as they were, for every
\* recognized key k.
C2_DownUpRoundTrip ==
    \A k \in MappedKeys :
        FlagsOf(process_keyup(process_keydown(camera_controller, k), k))
            = FlagsOf(camera_controller)

\* C3: after every tick both accumulated mouse deltas are zero, whether or
\* not process_mouse ran since the tick before; so a tick that follows at
\* once changes neither yaw nor pitch, whatever its dt.
C3_DeltasZeroAfterTick ==
    IsTick =>
        /\ camera_controller.rotate_horizontal = 0
        /\ camera_controller.rotate_vertical = 0
        /\ \A dt \in DtInputs :
              LET r == update_camera(camera_controller, camera, dt)
              IN  /\ r.camera.yaw = camera.yaw
                  /\ r.camera.pitch = camera.pitch

\* a tick that had a horizontal delta to consume and turned the camera
C3_Witness ==
    /\ IsTick
    /\ prev.camera_controller.rotate_horizontal # 0
    /\ camera.yaw # prev.camera.yaw
    /\ camera_controller.rotate_horizontal = 0

\* C4 as stated: every process_mouse call adds its deltas to the stored
\* ones (two calls of (10, 5) store 20 horizontally), a tick zeroes them.
C4_DeltasAccumulate ==
    /\ last.op = "process_mouse" =>
          /\ camera_controller.rotate_horizontal =
                prev.camera_controller.rotate_horizontal + last.mouse[1] * Scale
          /\ camera_controller.rotate_vertical =
                prev.camera_controller.rotate_vertical + last.mouse[2] * Scale
    /\ IsTick =>
          /\ camera_controller.rotate_horizontal = 0
          /\ camera_controller.rotate_vertical = 0

\* C4 amended: after process_mouse(dx, dy) the stored deltas are dx and dy
\* of that call, whatever was stored before (two calls of (10, 5) store
\* 10 horizontally); after a tick both are 0.
C4_LastDeltaStored ==
    /\ last.op = "process_mouse" =>
          /\ camera_controller.rotate_horizontal = last.mouse[1] * Scale
          /\ camera_controller.rotate_vertical = last.mouse[2] * Scale
    /\ IsTick =>
          /\ camera_controller.rotate_horizontal = 0
          /\ camera_controller.rotate_vertical = 0

\* the second of two process_mouse(10, 5) calls with no tick in between
C4_Witness ==
    /\ last.op = "process_mouse"
    /\ last.mouse = <<10, 5>>
    /\ prev.camera_controller.rotate_horizontal = 10 * Scale
    /\ prev.camera_controller.rotate_vertical = 5 * Scale
    /\ camera_controller.rotate_horizontal = 10 * Scale

\* C5: a scroll value is used by the next tick only: that tick moves the
\* camera by the dolly displacement and leaves scroll = 0; a tick that
\* finds scroll = 0 does not move the camera (no movement key is held
\* here), and no later tick has a dolly displacement to apply.
C5_ScrollOneShot ==
    IsTick =>
        /\ camera_controller.scroll = 0
        /\ camera.position =
              VAdd(prev.camera.position,
                   Dolly(prev.camera_controller, prev.camera, last.dt))
        /\ prev.camera_controller.scroll = 0 =>
              camera.position = prev.camera.position
        /\ \A dt \in DtInputs :
              update_camera(camera_controller, camera, dt).camera.position
                 = camera.position

\* a tick that consumed a scroll value and moved the camera
C5_Witness ==
    /\ IsTick
    /\ prev.camera_controller.scroll # 0
    /\ camera.position # prev.camera.position
    /\ camera_controller.scroll = 0

\* C6: a tick with no movement flag set and zero mouse and scroll deltas
\* leaves position, yaw and pitch of the camera as they were.
C6_IdleTick ==
    ( /\ IsTick
      /\ NoFlags(prev.camera_controller)
      /\ prev.camera_controller.rotate_horizontal = 0
      /\ prev.camera_controller.rotate_vertical = 0
      /\ prev.camera_controller.scroll = 0 )
    => /\ camera.position = prev.camera.position
       /\ camera.yaw = prev.camera.yaw
       /\ camera.pitch = prev.camera.pitch

\* an idle tick of a camera away from the origin, turned and tilted
C6_Witness ==
    /\ IsTick
    /\ NoFlags(prev.camera_controller)
    /\ prev.camera_controller.rotate_horizontal = 0
    /\ prev.camera_controller.rotate_vertical = 0
    /\ prev.camera_controller.scroll = 0
    /\ prev.camera.position # Vector3(0, 0, 0)
    /\ prev.camera.yaw # 0
    /\ prev.camera.pitch # 0
    /\ camera = prev.camera

\* C7: after every tick the pitch lies in [-(pi/2 - eps), pi/2 - eps],
\* strictly inside plus/minus a quarter turn.
C7_PitchClamped ==
    IsTick =>
        /\ -SAFE_FRAC_PI_2 <= camera.pitch
        /\ camera.pitch <= SAFE_FRAC_PI_2
        /\ SAFE_FRAC_PI_2 < FRAC_PI_2

\* the pitch the rotation of the last tick asked for, before the clamp
RequestedPitch ==
    prev.camera.pitch
      + FMul(FMul(-prev.camera_controller.rotate_vertical,
                  prev.camera_controller.sensitivity), last.dt)

\* a tick whose rotation overshot the upper bound and was clamped to it
C7_Witness ==
    /\ IsTick
    /\ RequestedPitch > FRAC_PI_2
    /\ camera.pitch = SAFE_FRAC_PI_2

\* the direction a movement flag moves the camera in, at the given yaw:
\* forward = (cos yaw, 0, sin yaw), right = (-sin yaw, 0, cos yaw), up = +y
Direction(flag, yaw) ==
    CASE flag = "move_forward"  -> Vector3(Cos(yaw), 0, Sin(yaw))
      [] flag = "move_backward" -> Vector3(-Cos(yaw), 0, -Sin(yaw))
      [] flag = "move_right"    -> Vector3(-Sin(yaw), 0, Cos(yaw))
      [] flag = "move_left"     -> Vector3(Sin(yaw), 0, -Cos(yaw))
      [] flag = "move_up"       -> Vector3(0, Scale, 0)
      [] flag = "move_down"     -> Vector3(0, -Scale, 0)

\* direction * speed * dt of one flag, zero when the flag is not set
FlagStep(c, cam, flag, dt) ==
    IF c[flag] THEN VMul(VMul(Direction(flag, cam.yaw), c.move_speed), dt)
               ELSE Vector3(0, 0, 0)

\* the position the per-flag displacements add up to
ExpectedPosition(c, cam, dt) ==
    VAdd(cam.position,
      VAdd(VAdd(FlagStep(c, cam, "move_forward", dt),
                FlagStep(c, cam, "move_backward", dt)),
        VAdd(VAdd(FlagStep(c, cam, "move_right", dt),
                  FlagStep(c, cam, "move_left", dt)),
             VAdd(FlagStep(c, cam, "move_up", dt),
                  FlagStep(c, cam, "move_down", dt)))))

\* fixed-point units by which normalising a unit vector may move a sum of
\* two planar displacements
RoundingSlack == 2

Near(u, v) == \A i \in 1..3 : Abs(u[i] - v[i]) <= RoundingSlack

OnlyForward(c) == \A f \in MoveFlags : c[f] <=> (f = "move_forward")

\* C8: with only move_forward set, speed 2, dt 1, at the origin with
\* yaw = pitch = 0 and nothing to dolly, one tick puts the camera at
\* exactly (2, 0, 0); in general a tick moves the camera by
\* direction * speed * dt for each flag set, on top of the dolly
\* displacement (up to rounding).
C8_TickMovement ==
    IsTick =>
        /\ ( /\ OnlyForward(prev.camera_controller)
             /\ prev.camera_controller.move_speed = 2 * Scale
             /\ prev.camera_controller.scroll = 0
             /\ last.dt = 1 * Scale
             /\ prev.camera.position = Vector3(0, 0, 0)
             /\ prev.camera.yaw = 0
             /\ prev.camera.pitch = 0 )
           => camera.position = Vector3(2 * Scale, 0, 0)
        /\ Near(camera.position,
                VAdd(ExpectedPosition(prev.camera_controller, prev.camera,
                                      last.dt),
                     Dolly(prev.camera_controller, prev.camera, last.dt)))

\* the scenario's tick, ended at (2, 0, 0)
C8_Witness ==
    /\ IsTick
    /\ OnlyForward(prev.camera_controller)
    /\ prev.camera_controller.move_speed = 2 * Scale
    /\ prev.camera_controller.scroll = 0
    /\ last.dt = 1 * Scale
    /\ prev.camera.position = Vector3(0, 0, 0)
    /\ prev.camera.yaw = 0
    /\ prev.camera.pitch = 0
    /\ camera.position = Vector3(2 * Scale, 0, 0)

\* C9: key-down and key-up of a key that is not mapped leave every field
\* of the controller as it was.
C9_UnmappedKeyIgnored ==
    (IsKeyOp /\ last.key \notin MappedKeys) =>
        camera_controller = prev.camera_controller

\* an unmapped key released while flags are held and deltas are pending
C9_Witness ==
    /\ last.op = "process_keyup"
    /\ last.key = "Escape"
    /\ camera_controller.move_forward
    /\ camera_controller.move_left
    /\ camera_controller.rotate_horizontal # 0
    /\ camera_controller.scroll # 0
    /\ camera_controller = prev.camera_controller

\* C10: after any sequence of events the aspect the view-projection
\* matrix is built with is the surface's current width / height.
C10_AspectFollowsSurface ==
    camera.aspect = Aspect(state.config.width, state.config.height)

\* C11: Projection::resize(width, height) with a non-zero height stores
\* width / height as the aspect and leaves fovy, znear and zfar as they
\* were; 800x600 gives 4/3 and 1600x900 gives 16/9.
C11_ResizeSetsAspectOnly ==
    (last.op = "Projection::resize" /\ last.new_size.height # 0) =>
        LET w == last.new_size.width
            h == last.new_size.height
        IN  /\ IsFinite(projection.aspect)
            /\ 2 * Abs(projection.aspect * h - w * Scale) <= h
            /\ projection.fovy = prev.projection.fovy
            /\ projection.znear = prev.projection.znear
            /\ projection.zfar = prev.projection.zfar
            /\ (w = 800 /\ h = 600) =>
                   projection.aspect = RoundDiv(4 * Scale, 3)
            /\ (w = 1600 /\ h = 900) =>
                   projection.aspect = RoundDiv(16 * Scale, 9)

\* a projection of aspect 4/3 was resized to 1600x900 and has aspect 16/9
C11_Witness ==
    /\ last.op = "Projection::resize"
    /\ last.new_size = PhysicalSize(1600, 900)
    /\ prev.projection.aspect = RoundDiv(4 * Scale, 3)
    /\ projection.aspect = RoundDiv(16 * Scale, 9)
    /\ projection.znear = Scale \div 10

\* C12: a Projection built or resized with height 0 never stores a
\* non-finite aspect (the division by zero is refused or the height is
\* clamped to at least 1).
C12_ZeroHeightGuarded ==
    (last.op \in {"Projection::new", "Projection::resize"}
        /\ last.new_size.height = 0) => IsFinite(projection.aspect)

\* C13: every RedrawRequested runs the controller's update on the camera,
\* then computes the view-projection matrix of the updated camera, then
\* writes it to camera_buffer at offset 0, and only then renders: at the
\* call of render the buffer holds the matrix of the camera this frame's
\* update produced.
C13_FrameOrdering ==
    (last.op = "RedrawRequested") =>
        LET r == update_camera(prev.camera_controller, prev.camera, last.dt)
            fresh == [view_proj |-> build_view_projection_matrix(r.camera)]
        IN  /\ camera = r.camera
            /\ SubSeq(last.calls, 1, 4) =
                  <<"update_camera", "update_view_proj", "write_buffer",
                    "render">>
            /\ state.camera_config = fresh
            /\ last.matrix = CastSlice(fresh)
            /\ state.camera_buffer = last.matrix

\* a frame whose update moved the camera was rendered
C13_Witness ==
    /\ last.op = "RedrawRequested"
    /\ last.result = "Ok"
    /\ camera.position # prev.camera.position
    /\ Len(last.matrix) = 16
    /\ last.matrix[1] # 0

\* points of the scene (x, y, z, 1) and clip-space vectors (x, y, z, w)
PointInputs ==
    { <<0, 0, 0, Scale>>, <<Scale, Scale, 0, Scale>>,
      <<-Scale, 0, -2 * Scale, Scale>>, <<0, Scale \div 2, Scale, Scale>> }
ClipInputs ==
    { <<x, y, z, w>> : x \in {-300, 0}, y \in {0, 777},
                       z \in {-2000, -1001, 0, 500, 2000},
                       w \in {1001, 2000} }

\* units the two roundings of the matrix products may differ by
DepthSlack == 3

\* C14: the camera matrix is correction * projection * view, and the
\* correction maps every clip-space (x, y, z, w) to (x, y, (z + w) / 2, w):
\* X, Y and W stay as they are, z = -w goes to 0 and z = w to w, so depth
\* z / w in [-1, 1] lands in [0, 1].
C14_DepthCorrection ==
    /\ \A v \in ClipInputs :
          LET c == MatVec(OPENGL_TO_WGPU_MATRIX, v)
          IN  /\ c[1] = v[1] /\ c[2] = v[2] /\ c[4] = v[4]
              /\ Abs(2 * c[3] - (v[3] + v[4])) <= 2
              /\ (v[3] = -v[4]) => c[3] = 0
              /\ (v[3] = v[4] /\ v[4] % 2 = 0) => c[3] = v[4]
              /\ (-v[4] <= v[3] /\ v[3] <= v[4]) =>
                    (0 <= c[3] /\ c[3] <= c[4] + 1)
    /\ (last.op = "update") =>
          \A p \in PointInputs :
            LET clip == MatVec(MatMul(Proj(camera), View(camera)), p)
                out == MatVec(state.camera_config.view_proj, p)
            IN  /\ out[1] = clip[1] /\ out[2] = clip[2] /\ out[4] = clip[4]
                /\ Abs(2 * out[3] - (clip[3] + clip[4])) <= DepthSlack

\* the matrix of a camera that looks from (3, 2, -1) was computed, and a
\* point in front of it has a depth strictly between 0 and w
C14_Witness ==
    /\ last.op = "update"
    /\ last.calls = <<"update_camera", "update_view_proj", "write_buffer">>
    /\ state.camera_buffer = CastSlice(state.camera_config)
    /\ camera.eye = Vector3(3 * Scale, 2 * Scale, -Scale)
    /\ state.camera_config.view_proj # Identity
    /\ LET out == MatVec(state.camera_config.view_proj, <<0, 0, 0, Scale>>)
       IN  0 < out[3] /\ out[3] < out[4]

\* C15: a Projection with znear <= 0, znear >= zfar or aspect <= 0 (or a
\* non-finite aspect) is refused when it is built or resized, so
\* calc_matrix is never asked for the matrix of one.
C15_DegenerateRejected ==
    (last.op = "Projection::calc_matrix") =>
        /\ projection.znear > 0
        /\ projection.znear < projection.zfar
        /\ IsFinite(projection.aspect)
        /\ projection.aspect > 0

\* C16: a KeyboardInput event with state Pressed and virtual key code
\* Escape for the window makes the event loop set the control flow to
\* Exit.
C16_EscapeExits ==
    (last.op = "KeyboardInput" /\ last.element_state = "Pressed"
        /\ last.key = "Escape") => control_flow = "Exit"

\* C17: after a frame whose render answered Lost the surface has been
\* configured once more with the size and configuration it had and the
\* loop keeps running; after OutOfMemory the control flow is Exit; after
\* Outdated or Timeout the control flow and the surface are as before.
C17_RenderErrors ==
    (last.op = "RedrawRequested") =>
        /\ (last.result = "Lost") =>
              /\ state.size = prev.state.size
              /\ state.config = prev.state.config
              /\ state.surface.width = state.config.width
              /\ state.surface.height = state.config.height
              /\ state.surface.configures # prev.state.surface.configures
              /\ control_flow = "Poll"
        /\ (last.result = "OutOfMemory") => control_flow = "Exit"
        /\ (last.result \in {"Outdated", "Timeout"}) =>
              /\ control_flow = "Poll"
              /\ state.surface = prev.state.surface
              /\ state.size = prev.state.size
              /\ state.config = prev.state.config

\* a frame on a surface resized to 3x4 lost it and configured it again
C17_Witness ==
    /\ last.op = "RedrawRequested"
    /\ last.result = "Lost"
    /\ prev.state.size = PhysicalSize(3, 4)
    /\ state.surface.width = 3
    /\ state.surface.configures # prev.state.surface.configures
    /\ control_flow = "Poll"

\* C18: bind_group_index always names one of the bind groups, so the
\* lookup in render finds one.
C18_BindGroupIndexValid ==
    0 <= state.bind_group_index /\ state.bind_group_index < NumBindGroups

\* Space was released after the index had already been advanced to 1
C18_Witness ==
    /\ last.op = "KeyboardInput"
    /\ last.key = "Space"
    /\ last.element_state = "Released"
    /\ prev.state.bind_group_index = NumBindGroups - 1
    /\ state.bind_group_index = 0

\* C19: a Space event, Pressed or Released, advances bind_group_index by
\* one modulo the number of bind groups and leaves the controller as it
\* was; with the two bind groups of State::new, the release after a press
\* brings the index back to its value before the press.
C19_SpaceCyclesBindGroup ==
    (last.op = "KeyboardInput" /\ last.key = "Space") =>
        /\ state.bind_group_index =
              (prev.state.bind_group_index + 1) % NumBindGroups
        /\ camera_controller = prev.camera_controller
        /\ control_flow = "Poll"
        /\ (last.element_state = "Pressed") =>
              LET released == input(state, camera_controller, "Released",
                                    "Space")
              IN  /\ released.state.bind_group_index =
                        prev.state.bind_group_index
                  /\ released.controller = prev.camera_controller

\* Space was pressed while W was held: the index moved, the flags did not
C19_Witness ==
    /\ last.op = "KeyboardInput"
    /\ last.key = "Space"
    /\ last.element_state = "Pressed"
    /\ prev.camera_controller.move_forward
    /\ ~camera_controller.move_up
    /\ prev.state.bind_group_index = 0
    /\ state.bind_group_index = 1

\* C20: the surface configuration and the size agree and are non-zero at
\* all times, and a resize to a size with a zero side leaves size,
\* configuration and surface as they were.
C20_SurfaceSize ==
    /\ state.config.width = state.size.width
    /\ state.config.height = state.size.height
    /\ state.size.width > 0
    /\ state.size.height > 0
    /\ (last.op \in {"Resized", "ScaleFactorChanged"}
          /\ (last.new_size.width = 0 \/ last.new_size.height = 0)) =>
            /\ state.size = prev.state.size
            /\ state.config = prev.state.config
            /\ state.surface = prev.state.surface
    /\ (last.op \in {"Resized", "ScaleFactorChanged"}
          /\ last.new_size.width > 0 /\ last.new_size.height > 0) =>
            /\ state.size = last.new_size
            /\ state.surface.configures # prev.state.surface.configures

\* a window resized to 3x4 was then told a size with a zero height
C20_Witness ==
    /\ last.op = "Resized"
    /\ last.new_size = PhysicalSize(4, 0)
    /\ prev.state.size = PhysicalSize(3, 4)
    /\ state.size = PhysicalSize(3, 4)
    /\ state.config.width = 3

\* C21: State::input answers true to every KeyboardInput event and never
\* fails, the events without a virtual key code included; such an event
\* leaves bind_group_index and the controller's flags as they were.
C21_InputNeverFails ==
    (last.op = "KeyboardInput") =>
        /\ last.result = "true"
        /\ control_flow # "Panicked"
        /\ (last.key = "None") =>
              /\ state.bind_group_index = prev.state.bind_group_index
              /\ camera_controller = prev.camera_controller

====
